---- MODULE Spec2Model ----
(***************************************************************************)
(* Concurrency model of AssistantBot (src/chubbPresent.py): the asyncio    *)
(* loop running handle_message and check_done_queue, the stream_events     *)
(* worker threads with their joined stream_follow_up thread, and the GUI   *)
(* threads running create_gui / update_gui.                                *)
(*                                                                         *)
(* Python strings are modelled as sequences of tokens, so that the         *)
(* f-strings, str.startswith and the `in` test are computed, not assumed.  *)
(***************************************************************************)
EXTENDS Integers, Sequences, FiniteSets, TLC

MaxUpdates == 2   \* inbound text messages delivered by the platform
MaxEvents == 2    \* delta and completed events the primary streams deliver in all
MaxChunks == 1    \* chunks with content the follow-up streams deliver in all
MaxFailures == 2  \* exceptions the OpenAI client raises in all
\* the same supplies in the runs with the gui threads (GuiSpec)
GuiMaxEvents == 1
GuiMaxChunks == 1
GuiMaxFailures == 1

Updates == 1..MaxUpdates

\* update.message.text of the inbound updates
UserTexts == {<<"Q">>}
\* block.text.value of a text delta / content of a follow-up chunk
DeltaTexts == {<<"T">>}
\* str(e) of an exception raised by the OpenAI client
ErrTexts == {<<"E">>}

-----------------------------------------------------------------------------
(* Strings *)

Str(t) == [none |-> FALSE, text |-> t]
None == [none |-> TRUE, text |-> <<>>]

StartsWith(s, p) == Len(s) >= Len(p) /\ SubSeq(s, 1, Len(p)) = p
Contains(s, p) == \E i \in 1..(Len(s) + 1) :
                     i + Len(p) - 1 <= Len(s) /\ SubSeq(s, i, i + Len(p) - 1) = p

ErrPrefix == <<"An error occurred", ":">>
AnswersMark == <<"Answers for">>
FollowMark == <<"Possible Follow-up Questions and Answers">>

AnswersSeparator(user_message) ==
    <<"\n\n">> \o AnswersMark \o <<" ">> \o user_message \o <<":", "\n___\n\n">>
FollowSeparator ==
    <<"\n\n">> \o FollowMark \o <<":", "\n___\n\n">>
PrimaryError(e) == <<"An error occurred", ":", " ">> \o e
FollowUpError(e) ==
    <<"\n", "An error occurred", " while generating follow-up", ":", " ">> \o e \o <<"\n">>

\* a queue entry: the Python object put on message_queue, with the producing
\* request and the producer's intent carried along as history
Item(m, u, tag) == [msg |-> m, req |-> u, tag |-> tag]

-----------------------------------------------------------------------------
VARIABLES
    is_processing,   \* self.is_processing
    root,            \* self.root: 0 is None, else the gui thread whose Tk() it is
    text_display,    \* self.text_display: 0 is None, else the owning gui thread
    message_queue,   \* self.message_queue
    done_queue,      \* self.done_queue
    user_text,       \* update.message.text of each delivered update
    handled,         \* number of updates handle_message has been entered for
    hpc,             \* handle_message: "idle" or "gui" (between line 264 and 267)
    npc,             \* check_done_queue: "idle" or "draining"
    pc,              \* stream_events thread of each update
    fpc,             \* stream_follow_up thread of each worker
    nevents,         \* events taken from the primary streams so far
    nchunks,         \* chunks taken from the follow-up streams so far
    nfailures,       \* exceptions the OpenAI client has raised so far
    assistant_response,
    follow_args,     \* history: the arguments of each stream_follow_up call
    gpc,             \* create_gui thread spawned for each update: its position
    upd,             \* update_gui of each gui thread
    exists,          \* winfo_exists() of each gui thread's window
    rendered,        \* contents of the text widget of each gui thread's window
    emitted,         \* history: what each worker has put, in order
    delivered,       \* history: what the Completion Service gave each worker
    signalled,       \* history: updates put on done_queue, in order
    sent             \* history: reply_text calls, in order

vars == <<is_processing, root, text_display, message_queue, done_queue,
          user_text, handled, hpc, npc, pc, fpc, nevents, nchunks, nfailures,
          assistant_response, follow_args, gpc, upd, exists, rendered, emitted,
          delivered, signalled, sent>>

asyncVars == <<handled, hpc, npc, sent, user_text>>
guiVars == <<root, text_display, gpc, upd, exists, rendered>>
workerLocal == <<fpc, nevents, nchunks, nfailures, assistant_response, follow_args>>

Init ==
    /\ is_processing = FALSE
    /\ root = 0
    /\ text_display = 0
    /\ message_queue = <<>>
    /\ done_queue = <<>>
    /\ user_text \in [Updates -> UserTexts]
    /\ handled = 0
    /\ hpc = "idle"
    /\ npc = "idle"
    /\ pc = [u \in Updates |-> "unborn"]
    /\ fpc = [u \in Updates |-> "none"]
    /\ nevents = 0
    /\ nchunks = 0
    /\ nfailures = 0
    /\ assistant_response = [u \in Updates |-> <<>>]
    /\ follow_args = [u \in Updates |-> <<>>]
    /\ gpc = [u \in Updates |-> "unborn"]
    /\ upd = [u \in Updates |-> "none"]
    /\ exists = [u \in Updates |-> FALSE]
    /\ rendered = [u \in Updates |-> <<>>]
    /\ emitted = [u \in Updates |-> <<>>]
    /\ delivered = [u \in Updates |-> <<>>]
    /\ signalled = <<>>
    /\ sent = <<>>

-----------------------------------------------------------------------------
(* handle_message, lines 247-271 *)

Reply(u, text) == [to |-> u, text |-> text]

\* self.root is None or not self.root.winfo_exists()
NoWindow == IF root = 0 THEN TRUE ELSE ~exists[root]

\* HandleReject without the return of line 258: the rejected message goes on
\* to start_streaming
HandleRejectFallsThrough ==
    /\ hpc = "idle"
    /\ handled < MaxUpdates
    /\ is_processing
    /\ handled' = handled + 1
    /\ sent' = Append(sent, [to |-> handled + 1, text |-> "StillProcessing"])
    /\ pc' = [pc EXCEPT ![handled + 1] = "spawned"]
    /\ hpc' = "gui"
    /\ UNCHANGED <<is_processing, message_queue, done_queue, user_text, npc,
                   workerLocal, guiVars, emitted, delivered, signalled>>

\* lines 256-258: the gate is held, reply and return
HandleReject ==
    /\ hpc = "idle"
    /\ handled < MaxUpdates
    /\ is_processing
    /\ handled' = handled + 1
    /\ sent' = Append(sent, Reply(handled + 1, "StillProcessing"))
    /\ UNCHANGED <<is_processing, message_queue, done_queue, user_text, hpc, npc,
                   pc, workerLocal, guiVars, emitted, delivered, signalled>>

\* HandleAccept that takes the gate itself before starting the worker
HandleAcceptSetsGate ==
    /\ hpc = "idle"
    /\ handled < MaxUpdates
    /\ ~is_processing
    /\ is_processing' = TRUE
    /\ handled' = handled + 1
    /\ pc' = [pc EXCEPT ![handled + 1] = "spawned"]
    /\ hpc' = "gui"
    /\ UNCHANGED <<message_queue, done_queue, user_text, npc, sent,
                   workerLocal, guiVars, emitted, delivered, signalled>>

\* lines 256, 260-264: the gate is free, start_streaming spawns the worker
HandleAccept ==
    /\ hpc = "idle"
    /\ handled < MaxUpdates
    /\ ~is_processing
    /\ handled' = handled + 1
    /\ pc' = [pc EXCEPT ![handled + 1] = "spawned"]
    /\ hpc' = "gui"
    /\ UNCHANGED <<is_processing, message_queue, done_queue, user_text, npc, sent,
                   workerLocal, guiVars, emitted, delivered, signalled>>

\* lines 267-271: start a gui thread when there is no window, acknowledge
HandleGui ==
    /\ hpc = "gui"
    /\ gpc' = IF NoWindow THEN [gpc EXCEPT ![handled] = "start"] ELSE gpc
    /\ sent' = Append(sent, Reply(handled, "Processing"))
    /\ hpc' = "idle"
    /\ UNCHANGED <<is_processing, message_queue, done_queue, user_text, handled, npc,
                   pc, workerLocal, root, text_display, upd, exists, rendered,
                   emitted, delivered, signalled>>

-----------------------------------------------------------------------------
(* check_done_queue, lines 279-291, run every second by the job queue *)

TickStart ==
    /\ npc = "idle"
    /\ npc' = "draining"
    /\ UNCHANGED <<is_processing, message_queue, done_queue, user_text, handled, hpc,
                   sent, pc, workerLocal, guiVars, emitted, delivered, signalled>>

\* DrainOne on a LifoQueue: the newest signal is taken first
DrainOneLifo ==
    /\ npc = "draining"
    /\ done_queue # <<>>
    /\ sent' = Append(sent, [to |-> done_queue[Len(done_queue)], text |-> "Done"])
    /\ done_queue' = SubSeq(done_queue, 1, Len(done_queue) - 1)
    /\ UNCHANGED <<is_processing, message_queue, user_text, handled, hpc, npc,
                   pc, workerLocal, guiVars, emitted, delivered, signalled>>

\* DrainOne that takes the signal and sends nothing
DrainOneLost ==
    /\ npc = "draining"
    /\ done_queue # <<>>
    /\ done_queue' = Tail(done_queue)
    /\ UNCHANGED <<is_processing, message_queue, user_text, handled, hpc, npc, sent,
                   pc, workerLocal, guiVars, emitted, delivered, signalled>>

\* lines 288-289: get_nowait() returned an update, send_done_message
DrainOne ==
    /\ npc = "draining"
    /\ done_queue # <<>>
    /\ sent' = Append(sent, Reply(Head(done_queue), "Done"))
    /\ done_queue' = Tail(done_queue)
    /\ UNCHANGED <<is_processing, message_queue, user_text, handled, hpc, npc,
                   pc, workerLocal, guiVars, emitted, delivered, signalled>>

\* lines 288, 290-291: get_nowait() raised queue.Empty, the tick ends
DrainEmpty ==
    /\ npc = "draining"
    /\ done_queue = <<>>
    /\ npc' = "idle"
    /\ UNCHANGED <<is_processing, message_queue, done_queue, user_text, handled, hpc,
                   sent, pc, workerLocal, guiVars, emitted, delivered, signalled>>

-----------------------------------------------------------------------------
(* stream_events, lines 53-100, and stream_follow_up, lines 102-146.      *)
(* A step ends at the thread's next access to shared state: the steps      *)
(* local to the thread (a call returning, an exception reaching its        *)
(* handler, the follow-up thread starting or being joined) are part of the *)
(* step that performs the access.                                          *)

\* self.message_queue.put(m) by the worker of update u
PutMessage(u, m, tag) ==
    /\ message_queue' = Append(message_queue, Item(m, u, tag))
    /\ emitted' = [emitted EXCEPT ![u] = Append(@, [tag |-> tag, msg |-> m])]

\* what the Completion Service hands to the worker of update u
Deliver(u, ev, t) ==
    delivered' = [delivered EXCEPT ![u] = Append(@, [ev |-> ev, text |-> t])]

\* lines 62-63
SetProcessing(u) ==
    /\ pc[u] = "spawned"
    /\ is_processing' = TRUE
    /\ assistant_response' = [assistant_response EXCEPT ![u] = <<>>]
    /\ pc' = [pc EXCEPT ![u] = "open"]
    /\ UNCHANGED <<message_queue, done_queue, asyncVars, fpc, nevents, nchunks, nfailures,
                   follow_args, guiVars, emitted, delivered, signalled>>

\* lines 66-76: create_and_run returned a stream, put the separator
OpenStream(u) ==
    /\ pc[u] = "open"
    /\ PutMessage(u, Str(AnswersSeparator(user_text[u])), "AnswersSeparator")
    /\ pc' = [pc EXCEPT ![u] = "iter"]
    /\ UNCHANGED <<is_processing, done_queue, asyncVars, workerLocal, guiVars,
                   delivered, signalled>>

\* PutError with the flag cleared in the try block instead of a finally
\* clause: the error path leaves the worker without line 100
PutErrorNoFinally(u) ==
    /\ nfailures < MaxFailures
    /\ nfailures' = nfailures + 1
    /\ \E e \in ErrTexts :
         /\ Deliver(u, "raise", e)
         /\ PutMessage(u, Str(PrimaryError(e)), "Error")
    /\ pc' = [pc EXCEPT ![u] = "exited"]
    /\ UNCHANGED <<is_processing, done_queue, asyncVars, fpc, nevents, nchunks,
                   assistant_response, follow_args, guiVars, signalled>>

\* lines 96-98: the handler of an exception raised in the try block
PutError(u) ==
    /\ nfailures < MaxFailures
    /\ nfailures' = nfailures + 1
    /\ \E e \in ErrTexts :
         /\ Deliver(u, "raise", e)
         /\ PutMessage(u, Str(PrimaryError(e)), "Error")
    /\ pc' = [pc EXCEPT ![u] = "finally"]
    /\ UNCHANGED <<is_processing, done_queue, asyncVars, fpc, nevents, nchunks,
                   assistant_response, follow_args, guiVars, signalled>>

\* OpenFail with the separator put before create_and_run is called: a failed
\* open leaves the separator and the error text
OpenFailAfterSeparator(u) ==
    /\ pc[u] = "open"
    /\ nfailures < MaxFailures
    /\ nfailures' = nfailures + 1
    /\ \E e \in ErrTexts :
         /\ Deliver(u, "raise", e)
         /\ message_queue' = message_queue
                \o <<Item(Str(AnswersSeparator(user_text[u])), u, "AnswersSeparator"),
                     Item(Str(PrimaryError(e)), u, "Error")>>
         /\ emitted' = [emitted EXCEPT ![u] = @
                \o <<[tag |-> "AnswersSeparator", msg |-> Str(AnswersSeparator(user_text[u]))],
                     [tag |-> "Error", msg |-> Str(PrimaryError(e))]>>]
    /\ pc' = [pc EXCEPT ![u] = "finally"]
    /\ UNCHANGED <<is_processing, done_queue, asyncVars, fpc, nevents, nchunks,
                   assistant_response, follow_args, guiVars, signalled>>

\* lines 66-74: create_and_run raised
OpenFail(u) ==
    /\ pc[u] = "open"
    /\ PutError(u)

\* DeltaEvent without line 86: the text is put and not accumulated
DeltaEventNoAccumulate(u) ==
    /\ pc[u] = "iter"
    /\ nevents < MaxEvents
    /\ \E t \in DeltaTexts :
         /\ Deliver(u, "delta", t)
         /\ PutMessage(u, Str(t), "Text")
    /\ nevents' = nevents + 1
    /\ UNCHANGED <<is_processing, done_queue, asyncVars, pc, fpc, nchunks, nfailures,
                   assistant_response, follow_args, guiVars, signalled>>

\* lines 79-87: a thread.message.delta event with one text block
DeltaEvent(u) ==
    /\ pc[u] = "iter"
    /\ nevents < MaxEvents
    /\ \E t \in DeltaTexts :
         /\ Deliver(u, "delta", t)
         /\ assistant_response' = [assistant_response EXCEPT ![u] = @ \o t]
         /\ PutMessage(u, Str(t), "Text")
    /\ nevents' = nevents + 1
    /\ UNCHANGED <<is_processing, done_queue, asyncVars, pc, fpc, nchunks, nfailures,
                   follow_args, guiVars, signalled>>

\* lines 79-88: a delta without text content, or an event of any other type,
\* is taken from the stream and changes nothing
OtherEvent(u) ==
    /\ pc[u] = "iter"
    /\ UNCHANGED vars

\* CompletedEvent without the join() of line 92: the end-of-stream marker is
\* put while the follow-up thread is still running
CompletedEventNoJoin(u) ==
    /\ pc[u] = "iter"
    /\ nevents < MaxEvents
    /\ nevents' = nevents + 1
    /\ Deliver(u, "completed", <<>>)
    /\ PutMessage(u, None, "EndOfStream")
    /\ pc' = [pc EXCEPT ![u] = "signal"]
    /\ fpc' = [fpc EXCEPT ![u] = "iter"]
    /\ follow_args' = [follow_args EXCEPT ![u] =
                          Append(@, <<user_text[u], assistant_response[u]>>)]
    /\ UNCHANGED <<is_processing, done_queue, asyncVars, nchunks, nfailures,
                   assistant_response, guiVars, signalled>>

\* lines 88-92, 110-124: thread.message.completed starts the follow-up thread
\* and waits in join(); the follow-up thread puts its separator
CompletedEvent(u) ==
    /\ pc[u] = "iter"
    /\ nevents < MaxEvents
    /\ nevents' = nevents + 1
    /\ Deliver(u, "completed", <<>>)
    /\ PutMessage(u, Str(FollowSeparator), "FollowSeparator")
    /\ pc' = [pc EXCEPT ![u] = "join"]
    /\ fpc' = [fpc EXCEPT ![u] = "iter"]
    /\ follow_args' = [follow_args EXCEPT ![u] =
                          Append(@, <<user_text[u], assistant_response[u]>>)]
    /\ UNCHANGED <<is_processing, done_queue, asyncVars, nchunks, nfailures, assistant_response,
                   guiVars, signalled>>

\* line 79: iterating the primary stream raised
StreamRaise(u) ==
    /\ pc[u] = "iter"
    /\ PutError(u)

\* lines 127-143: the follow-up stream delivers a chunk with content
FollowChunk(u) ==
    /\ fpc[u] = "iter"
    /\ nchunks < MaxChunks
    /\ \E t \in DeltaTexts :
         /\ Deliver(u, "chunk", t)
         /\ PutMessage(u, Str(t), "FollowText")
    /\ nchunks' = nchunks + 1
    /\ UNCHANGED <<is_processing, done_queue, asyncVars, pc, fpc, nevents, nfailures,
                   assistant_response, follow_args, guiVars, signalled>>

\* lines 139-142: a chunk whose delta has no content changes nothing
FollowEmptyChunk(u) ==
    /\ fpc[u] = "iter"
    /\ UNCHANGED vars

\* FollowFail without the try/except of lines 110 and 144, run in the
\* worker's own thread: the exception reaches the handler of line 96
FollowFailPropagates(u) ==
    /\ fpc[u] = "iter"
    /\ nfailures < MaxFailures
    /\ nfailures' = nfailures + 1
    /\ \E e \in ErrTexts :
         /\ Deliver(u, "followraise", e)
         /\ PutMessage(u, Str(PrimaryError(e)), "Error")
    /\ fpc' = [fpc EXCEPT ![u] = "none"]
    /\ pc' = [pc EXCEPT ![u] = "finally"]
    /\ UNCHANGED <<is_processing, done_queue, asyncVars, nevents, nchunks,
                   assistant_response, follow_args, guiVars, signalled>>

\* lines 127-146: the create call or the iteration raised, the handler puts
\* the error text and stream_follow_up returns
FollowFail(u) ==
    /\ fpc[u] = "iter"
    /\ nfailures < MaxFailures
    /\ nfailures' = nfailures + 1
    /\ \E e \in ErrTexts :
         /\ Deliver(u, "followraise", e)
         /\ PutMessage(u, Str(FollowUpError(e)), "FollowError")
    /\ fpc' = [fpc EXCEPT ![u] = "done"]
    /\ UNCHANGED <<is_processing, done_queue, asyncVars, pc, nevents, nchunks,
                   assistant_response, follow_args, guiVars, signalled>>

\* the follow-up thread has returned: its stream is exhausted (line 139) or
\* its handler has run (line 146)
FollowReturned(u) == fpc[u] \in {"iter", "done"}

\* lines 92-93: join() returns, put the end-of-stream marker
PutEndOfStream(u) ==
    /\ pc[u] = "join"
    /\ FollowReturned(u)
    /\ PutMessage(u, None, "EndOfStream")
    /\ pc' = [pc EXCEPT ![u] = "signal"]
    /\ fpc' = [fpc EXCEPT ![u] = "none"]
    /\ UNCHANGED <<is_processing, done_queue, asyncVars, nevents, nchunks, nfailures,
                   assistant_response, follow_args, guiVars, delivered, signalled>>

\* PutSignal with the flag cleared before the put of line 94
PutSignalAfterRelease(u) ==
    /\ pc[u] = "signal"
    /\ is_processing' = FALSE
    /\ done_queue' = Append(done_queue, u)
    /\ signalled' = Append(signalled, u)
    /\ emitted' = [emitted EXCEPT ![u] = @ \o <<[tag |-> "Release", msg |-> None],
                                                [tag |-> "CompletionSignal", msg |-> None]>>]
    /\ pc' = [pc EXCEPT ![u] = "exited"]
    /\ UNCHANGED <<message_queue, asyncVars, workerLocal, guiVars, delivered>>

\* line 94: done_queue.put(update), then back to the for loop
PutSignal(u) ==
    /\ pc[u] = "signal"
    /\ done_queue' = Append(done_queue, u)
    /\ signalled' = Append(signalled, u)
    /\ emitted' = [emitted EXCEPT ![u] = Append(@, [tag |-> "CompletionSignal", msg |-> None])]
    /\ pc' = [pc EXCEPT ![u] = "iter"]
    /\ UNCHANGED <<is_processing, message_queue, asyncVars, workerLocal, guiVars,
                   delivered>>

\* the try block is left: the primary stream is exhausted (line 79) or the
\* handler has run (line 98)
TryLeft(u) == pc[u] \in {"iter", "finally"}

\* lines 99-100
Release(u) ==
    /\ TryLeft(u)
    /\ is_processing' = FALSE
    /\ emitted' = [emitted EXCEPT ![u] = Append(@, [tag |-> "Release", msg |-> None])]
    /\ pc' = [pc EXCEPT ![u] = "exited"]
    /\ UNCHANGED <<message_queue, done_queue, asyncVars, workerLocal, guiVars,
                   delivered, signalled>>

-----------------------------------------------------------------------------
(* create_gui and update_gui, lines 159-239 *)

\* the three-way condition of lines 172 and 179
CanRender == IF text_display # 0 /\ root # 0 THEN exists[root] ELSE FALSE

\* line 199: no window, go on to build one
CheckWindow(g) ==
    /\ gpc[g] = "start"
    /\ NoWindow
    /\ gpc' = [gpc EXCEPT ![g] = "create"]
    /\ UNCHANGED <<is_processing, message_queue, done_queue, asyncVars, pc,
                   workerLocal, root, text_display, upd, exists, rendered,
                   emitted, delivered, signalled>>

\* lines 200-232: build the window and make the first update_gui call
CreateWindow(g) ==
    /\ gpc[g] = "create"
    /\ root' = g
    /\ text_display' = g
    /\ exists' = [exists EXCEPT ![g] = TRUE]
    /\ gpc' = [gpc EXCEPT ![g] = "loop"]
    /\ upd' = [upd EXCEPT ![g] = "running"]
    /\ UNCHANGED <<is_processing, message_queue, done_queue, asyncVars, pc,
                   workerLocal, rendered, emitted, delivered, signalled>>

\* line 199: a window exists, skip to line 238
SkipWindow(g) ==
    /\ gpc[g] = "start"
    /\ ~NoWindow
    /\ gpc' = [gpc EXCEPT ![g] = "reset"]
    /\ UNCHANGED <<is_processing, message_queue, done_queue, asyncVars, pc,
                   workerLocal, root, text_display, upd, exists, rendered,
                   emitted, delivered, signalled>>

\* the user closes the window: it is destroyed, its text widget with it, and
\* mainloop() returns
CloseWindow(g) ==
    /\ gpc[g] = "loop"
    /\ upd[g] \in {"none", "scheduled"}
    /\ exists' = [exists EXCEPT ![g] = FALSE]
    /\ upd' = [upd EXCEPT ![g] = "none"]
    /\ gpc' = [gpc EXCEPT ![g] = "reset"]
    /\ rendered' = [rendered EXCEPT ![g] = <<>>]
    /\ UNCHANGED <<is_processing, message_queue, done_queue, asyncVars, pc,
                   workerLocal, root, text_display, emitted, delivered, signalled>>

\* line 238
ResetRoot(g) ==
    /\ gpc[g] = "reset"
    /\ root' = 0
    /\ gpc' = [gpc EXCEPT ![g] = "reset2"]
    /\ UNCHANGED <<is_processing, message_queue, done_queue, asyncVars, pc,
                   workerLocal, text_display, upd, exists, rendered, emitted, delivered, signalled>>

\* line 239
ResetTextDisplay(g) ==
    /\ gpc[g] = "reset2"
    /\ text_display' = 0
    /\ gpc' = [gpc EXCEPT ![g] = "done"]
    /\ UNCHANGED <<is_processing, message_queue, done_queue, asyncVars, pc,
                   workerLocal, root, upd, exists, rendered, emitted, delivered, signalled>>

\* update_gui is entered: by the call of line 232, then whenever the
\* after(100, ...) timer of line 192 fires in the gui thread's mainloop
InUpdate(g) == gpc[g] = "loop" /\ upd[g] \in {"scheduled", "running"}

Insert(item, style) ==
    IF CanRender
    THEN [rendered EXCEPT ![text_display] =
             Append(@, [req |-> item.req, tag |-> item.tag, style |-> style])]
    ELSE rendered

\* lines 166-187: one get_nowait() that returned an item
UpdateGet(g) ==
    /\ InUpdate(g)
    /\ message_queue # <<>>
    /\ message_queue' = Tail(message_queue)
    /\ LET item == Head(message_queue) IN
         IF item.msg.none
         THEN /\ rendered' = rendered
              /\ upd' = [upd EXCEPT ![g] = "finally"]
         ELSE IF StartsWith(item.msg.text, ErrPrefix)
         THEN /\ rendered' = Insert(item, "error")
              /\ upd' = [upd EXCEPT ![g] = "finally"]
         ELSE /\ rendered' =
                    IF Contains(item.msg.text, AnswersMark) \/ Contains(item.msg.text, FollowMark)
                    THEN Insert(item, "separator")
                    ELSE Insert(item, "plain")
              /\ upd' = [upd EXCEPT ![g] = "running"]
    /\ UNCHANGED <<is_processing, root, text_display, done_queue, asyncVars, pc,
                   workerLocal, gpc, exists, emitted, delivered, signalled>>

\* lines 166, 188-189: get_nowait() raised queue.Empty
UpdateEmpty(g) ==
    /\ InUpdate(g)
    /\ message_queue = <<>>
    /\ upd' = [upd EXCEPT ![g] = "finally"]
    /\ UNCHANGED <<is_processing, root, text_display, message_queue, done_queue,
                   asyncVars, pc, workerLocal, gpc, exists, rendered, emitted, delivered, signalled>>

\* lines 190-192: reschedule on self.root when it is a live window
UpdateFinally(g) ==
    /\ gpc[g] = "loop"
    /\ upd[g] = "finally"
    /\ upd' = IF ~NoWindow
              THEN [upd EXCEPT ![g] = "none", ![root] = "scheduled"]
              ELSE [upd EXCEPT ![g] = "none"]
    /\ UNCHANGED <<is_processing, root, text_display, message_queue, done_queue,
                   asyncVars, pc, workerLocal, gpc, exists, rendered, emitted, delivered, signalled>>

-----------------------------------------------------------------------------
Dispatcher == HandleReject \/ HandleAccept \/ HandleGui

Notifier == TickStart \/ DrainOne \/ DrainEmpty

Workers ==
    \E u \in Updates :
        \/ SetProcessing(u)
        \/ OpenStream(u)
        \/ OpenFail(u)
        \/ DeltaEvent(u)
        \/ OtherEvent(u)
        \/ CompletedEvent(u)
        \/ StreamRaise(u)
        \/ PutEndOfStream(u)
        \/ PutSignal(u)
        \/ Release(u)
        \/ FollowChunk(u)
        \/ FollowEmptyChunk(u)
        \/ FollowFail(u)

Gui ==
    \E g \in Updates :
        \/ CheckWindow(g)
        \/ CreateWindow(g)
        \/ SkipWindow(g)
        \/ CloseWindow(g)
        \/ ResetRoot(g)
        \/ ResetTextDisplay(g)
        \/ UpdateGet(g)
        \/ UpdateEmpty(g)
        \/ UpdateFinally(g)

(***************************************************************************)
(* The two consumers are independent of each other and of the producers:   *)
(* check_done_queue writes only done_queue and sends replies, the gui      *)
(* threads write only message_queue (removing its head) and the window     *)
(* fields, and neither the dispatcher's gate check nor a worker reads any  *)
(* of these.  The request path is therefore checked with the notifier      *)
(* (Spec) and the display path with the gui threads (GuiSpec).  The gui    *)
(* threads multiply the states of the producers by several hundred, so the *)
(* display path is checked with a smaller supply from the Completion       *)
(* Service: GuiMaxEvents events, GuiMaxChunks chunks and GuiMaxFailures    *)
(* exceptions in all.                                                      *)
(***************************************************************************)
Next == Dispatcher \/ Workers \/ Notifier

Spec == Init /\ [][Next]_vars

GuiWorkers ==
    \E u \in Updates :
        \/ SetProcessing(u)
        \/ OpenStream(u)
        \/ (nfailures < GuiMaxFailures /\ OpenFail(u))
        \/ (nevents < GuiMaxEvents /\ DeltaEvent(u))
        \/ OtherEvent(u)
        \/ (nevents < GuiMaxEvents /\ CompletedEvent(u))
        \/ (nfailures < GuiMaxFailures /\ StreamRaise(u))
        \/ PutEndOfStream(u)
        \/ PutSignal(u)
        \/ Release(u)
        \/ (nchunks < GuiMaxChunks /\ FollowChunk(u))
        \/ FollowEmptyChunk(u)
        \/ (nfailures < GuiMaxFailures /\ FollowFail(u))

GuiNext == Dispatcher \/ GuiWorkers \/ Gui

GuiSpec == Init /\ [][GuiNext]_vars

(***************************************************************************)
(* check_done_queue is a repeating job (line 307, every second): a tick    *)
(* that is due starts, and a started tick takes its next step.             *)
(***************************************************************************)
LiveSpec ==
    /\ Init
    /\ [][Next]_vars
    /\ WF_vars(TickStart)
    /\ WF_vars(DrainOne)
    /\ WF_vars(DrainEmpty)

-----------------------------------------------------------------------------
(* Properties *)

Tags(u) == [i \in 1..Len(emitted[u]) |-> emitted[u][i].tag]
CountTag(u, tag) == Cardinality({i \in 1..Len(emitted[u]) : emitted[u][i].tag = tag})
CountEv(u, ev) == Cardinality({i \in 1..Len(delivered[u]) : delivered[u][i].ev = ev})

\* what the worker of u has put on message_queue, in order
IsQueuePut(e) == e.tag \notin {"CompletionSignal", "Release"}
Puts(u) == SelectSeq(emitted[u], IsQueuePut)

\* the originators of the 'Done' replies, in the order they were sent
IsDone(r) == r.text = "Done"
DoneReplies == SelectSeq(sent, IsDone)
DoneTo == [i \in 1..Len(DoneReplies) |-> DoneReplies[i].to]
RepliesTo(u, text) == Cardinality({i \in 1..Len(sent) : sent[i] = Reply(u, text)})

\* a worker that has executed line 62 and not yet line 100
Running == {"open", "iter", "join", "signal", "finally"}
\* a worker thread that was started and has not exited
InFlight(u) == pc[u] \notin {"unborn", "exited"}

\* C1: at most one stream_events worker is between its start and its exit
\* at any instant.
C1_MutualExclusion ==
    Cardinality({u \in Updates : pc[u] \in Running}) <= 1

\* C2: a message that arrives while an earlier accepted request's worker
\* has not exited is answered with the still-processing reply, gets no
\* worker, and nothing is ever put for it.
C2_GateSerialization ==
    [][(handled' = handled + 1 /\ \E u \in 1..handled : InFlight(u))
         => /\ sent' = Append(sent, Reply(handled', "StillProcessing"))
            /\ pc'[handled'] = "unborn"
            /\ emitted'[handled'] = <<>>]_vars

\* C3: for a request whose primary stream delivers text deltas and then a
\* message-completed event, and whose follow-up stream delivers chunks, the
\* worker's puts are exactly: the 'Answers for' separator, the deltas in
\* stream order, the follow-up separator, the follow-up chunks in stream
\* order, and, once join() has returned, the end-of-stream marker.
DeltasThenCompleted(ds) ==
    \E n \in 0..Len(ds) :
        /\ \A i \in 1..n : ds[i].ev = "delta"
        /\ n < Len(ds) => /\ ds[n + 1].ev = "completed"
                          /\ \A i \in (n + 2)..Len(ds) : ds[i].ev = "chunk"
PutFor(d) ==
    CASE d.ev = "delta" -> [tag |-> "Text", msg |-> Str(d.text)]
      [] d.ev = "completed" -> [tag |-> "FollowSeparator", msg |-> Str(FollowSeparator)]
      [] d.ev = "chunk" -> [tag |-> "FollowText", msg |-> Str(d.text)]
ExpectedPuts(u) ==
    <<[tag |-> "AnswersSeparator", msg |-> Str(AnswersSeparator(user_text[u]))]>>
    \o [i \in 1..Len(delivered[u]) |-> PutFor(delivered[u][i])]
    \o (IF CountEv(u, "completed") > 0 /\ pc[u] # "join"
        THEN <<[tag |-> "EndOfStream", msg |-> None]>>
        ELSE <<>>)
C3_OrderPreservation ==
    \A u \in Updates :
        (pc[u] \in {"iter", "join", "signal", "exited"} /\ DeltasThenCompleted(delivered[u]))
            => Puts(u) = ExpectedPuts(u)
C3_Witness ==
    \E u \in Updates :
        /\ pc[u] = "exited"
        /\ Len(delivered[u]) = 3
        /\ delivered[u][1].ev = "delta"
        /\ delivered[u][2].ev = "completed"
        /\ delivered[u][3].ev = "chunk"
        /\ Len(Puts(u)) = 5

\* C4: if the primary completion call fails at any point, no CompletionSignal
\* and no EndOfStream is ever put for that request and no 'Done' is sent.
C4_NoSignalOnError ==
    \A u \in Updates :
        CountEv(u, "raise") > 0
            => /\ CountTag(u, "EndOfStream") = 0
               /\ CountTag(u, "CompletionSignal") = 0
               /\ RepliesTo(u, "Done") = 0

AllExited == \A u \in Updates : ~InFlight(u)
C6_ReleasedOnce ==
    /\ \A u \in Updates :
         /\ CountTag(u, "Release") = (IF pc[u] = "exited" THEN 1 ELSE 0)
         /\ pc[u] = "exited" => emitted[u][Len(emitted[u])].tag = "Release"
    /\ AllExited => ~is_processing
C6_GateRelease ==
    /\ []C6_ReleasedOnce
    /\ [][(AllExited /\ handled' = handled + 1) => pc'[handled'] = "spawned"]_vars
C6_Witness ==
    /\ handled = 2
    /\ pc[1] = "exited"
    /\ pc[2] = "spawned"
    /\ CountEv(1, "raise") = 1

\* C7: a worker puts at most one EndOfStream and at most one
\* CompletionSignal, and exactly one of each when the request succeeds.
C7_OneCompletion ==
    \A u \in Updates :
        /\ CountTag(u, "EndOfStream") <= 1
        /\ CountTag(u, "CompletionSignal") <= 1
        /\ (pc[u] = "exited" /\ CountEv(u, "raise") = 0 /\ CountEv(u, "completed") > 0)
              => /\ CountTag(u, "EndOfStream") = 1
                 /\ CountTag(u, "CompletionSignal") = 1

\* C8: 'Done' replies are sent in the order their CompletionSignals were put
\* on done_queue.
IsPrefix(s, t) == Len(s) <= Len(t) /\ SubSeq(t, 1, Len(s)) = s
C8_NotifierOrdering == IsPrefix(DoneTo, signalled)
C8_Witness ==
    /\ Len(DoneTo) = 2
    /\ DoneTo[1] # DoneTo[2]

\* C9: every CompletionSignal put on done_queue is removed by a tick and
\* answered with exactly one 'Done' to its originator, no 'Done' is sent
\* without a signal (the signals put are, at all times, the 'Done' replies
\* sent followed by the signals still queued), and again and again every
\* signal put so far has been answered and the tick has ended.
C9_Accounting == signalled = DoneTo \o done_queue
C9_CompletionDelivery ==
    /\ []C9_Accounting
    /\ []<>(npc = "idle" /\ Len(DoneTo) = Len(signalled))
C9_Witness ==
    /\ Len(signalled) = 2
    /\ Len(DoneTo) = 2
    /\ npc = "idle"

\* C10: every handled message gets exactly one immediate reply, the
\* acknowledgment or the rejection; a worker is spawned iff it is the
\* acknowledgment; a rejected message is never processed.
Answered(u) == u < handled \/ (u = handled /\ hpc = "idle")
C10_DispatcherOutcome ==
    \A u \in Updates :
        /\ RepliesTo(u, "Processing") + RepliesTo(u, "StillProcessing")
              = (IF Answered(u) THEN 1 ELSE 0)
        /\ Answered(u) => (pc[u] # "unborn" <=> RepliesTo(u, "Processing") = 1)
        /\ RepliesTo(u, "StillProcessing") = 1
              => /\ pc[u] = "unborn"
                 /\ gpc[u] = "unborn"
                 /\ emitted[u] = <<>>
                 /\ RepliesTo(u, "Done") = 0
C10_Witness ==
    /\ RepliesTo(1, "Processing") = 1
    /\ RepliesTo(2, "StillProcessing") = 1
    /\ pc[1] = "exited"

\* C11: every worker that has exited has emitted a terminal event for its
\* request: an EndOfStream followed by a CompletionSignal, or an ErrorChunk.
C11_TerminalEvent ==
    \A u \in Updates :
        pc[u] = "exited"
            => \/ CountTag(u, "Error") > 0
               \/ \E i \in 1..(Len(emitted[u]) - 1) :
                     /\ Tags(u)[i] = "EndOfStream"
                     /\ Tags(u)[i + 1] = "CompletionSignal"

\* C12: after a worker has put EndOfStream it puts no TextChunk, no
\* SeparatorChunk and no ErrorChunk on message_queue.
C12_SentinelTerminal ==
    \A u \in Updates :
        \A i \in 1..Len(emitted[u]) :
            Tags(u)[i] = "EndOfStream"
                => \A j \in (i + 1)..Len(emitted[u]) :
                       Tags(u)[j] \in {"EndOfStream", "CompletionSignal", "Release"}

\* C17: stream_follow_up is called once per message-completed event and on
\* nothing else, and the response text of each call is the concatenation, in
\* order, of the texts this worker had put as TextChunks before the call.
RECURSIVE ConcatText(_)
ConcatText(es) ==
    IF es = <<>> THEN <<>>
    ELSE (IF Head(es).tag = "Text" THEN Head(es).msg.text ELSE <<>>) \o ConcatText(Tail(es))
FollowStarts(u) == {i \in 1..Len(emitted[u]) : Tags(u)[i] = "FollowSeparator"}
C18_FirstPut ==
    \A u \in Updates :
        /\ pc[u] \in {"unborn", "spawned", "open"} => emitted[u] = <<>>
        /\ Puts(u) # <<>> =>
              \/ /\ Puts(u)[1] = [tag |-> "AnswersSeparator",
                                  msg |-> Str(AnswersSeparator(user_text[u]))]
                 /\ \A i \in 2..Len(Puts(u)) : Puts(u)[i].tag # "AnswersSeparator"
              \/ /\ Len(Puts(u)) = 1
                 /\ Len(delivered[u]) = 1
                 /\ delivered[u][1].ev = "raise"
                 /\ Puts(u)[1] = [tag |-> "Error", msg |-> Str(PrimaryError(delivered[u][1].text))]
C18_SeparatorFirst ==
    /\ []C18_FirstPut
    /\ [][\A u \in Updates :
             (pc[u] = "open" /\ pc'[u] = "finally")
                => /\ Len(Puts(u)') = 1
                   /\ Puts(u)'[1].tag = "Error"]_vars
C18_Witness ==
    /\ pc[1] = "exited"
    /\ Len(Puts(1)) = 1
    /\ Puts(1)[1].tag = "Error"
    /\ Len(Puts(2)) >= 2
    /\ Puts(2)[2].tag = "Text"

\* C19: a step of handle_message, check_done_queue or stream_follow_up leaves
\* is_processing as it is; the flag is true after a worker's first step and
\* false after its last, and changes in no other step.
WorkerStarts(u) == pc[u] = "spawned" /\ pc'[u] # "spawned"
WorkerExits(u) == pc[u] # "exited" /\ pc'[u] = "exited"
C19_GateWriters ==
    [][/\ \A u \in Updates : WorkerStarts(u) => is_processing'
       /\ \A u \in Updates : WorkerExits(u) => ~is_processing'
       /\ is_processing' # is_processing
             => \E u \in Updates : WorkerStarts(u) \/ WorkerExits(u)
       /\ (handled' # handled \/ hpc' # hpc \/ sent' # sent \/ npc' # npc
             \/ Len(done_queue') < Len(done_queue) \/ fpc' # fpc \/ nchunks' # nchunks)
             => is_processing' = is_processing]_vars
C19_Witness ==
    /\ pc[1] = "exited"
    /\ ~is_processing
    /\ RepliesTo(2, "StillProcessing") = 1
    /\ RepliesTo(1, "Done") = 1

\* C20: in every worker, each CompletionSignal is put right after an
\* EndOfStream, each EndOfStream is followed by its CompletionSignal, and the
\* release of the gate comes after all of them; the signals on record are
\* those the workers have put.  So 'Done' can be sent while the flag is set.
C20_SignalBeforeRelease ==
    /\ \A u \in Updates :
         /\ \A i \in 1..Len(emitted[u]) :
              /\ Tags(u)[i] = "CompletionSignal" => (i > 1 /\ Tags(u)[i - 1] = "EndOfStream")
              /\ (Tags(u)[i] = "EndOfStream" /\ i < Len(emitted[u]))
                     => Tags(u)[i + 1] = "CompletionSignal"
              /\ Tags(u)[i] = "Release" => i = Len(emitted[u])
         /\ CountTag(u, "CompletionSignal")
               = Cardinality({i \in 1..Len(signalled) : signalled[i] = u})
         /\ (CountTag(u, "EndOfStream") > CountTag(u, "CompletionSignal")) => pc[u] = "signal"
C20_Witness ==
    /\ pc[1] = "iter"
    /\ pc[2] = "unborn"
    /\ is_processing
    /\ RepliesTo(1, "Done") = 1

\* a step of update_gui that removes the head of message_queue
Removes == message_queue # <<>> /\ message_queue' = Tail(message_queue)
\* the display surfaces: gui threads inside mainloop() with a live window
Active(g) == gpc[g] = "loop" /\ exists[g]

\* C13: update_gui removes from the head of message_queue only; a drain pass
\* ends only when the queue is found empty or an EndOfStream has been
\* removed, never on another event while events remain queued; and when a
\* pass is over the window is still there and the next cycle is scheduled.
C13_DrainPass ==
    [][/\ Len(message_queue') < Len(message_queue) => Removes
       /\ \A g \in Updates :
            /\ (upd[g] \in {"scheduled", "running"} /\ upd'[g] = "finally")
                  => \/ message_queue = <<>>
                     \/ Removes /\ Head(message_queue).msg.none
                     \/ message_queue' = <<>>
            /\ (upd[g] = "finally" /\ upd'[g] # "finally")
                  => Active(g)' /\ upd'[g] = "scheduled"]_vars

\* C14: every TextChunk, SeparatorChunk or ErrorChunk that update_gui
\* removes from message_queue is, in the same step, appended to the text
\* widget of a live window; nothing else removes events, so the events are
\* rendered in queue order.
C14_NoLoss ==
    [][(Removes /\ ~Head(message_queue).msg.none)
          => \E g \in Updates :
               /\ exists[g]
               /\ Len(rendered'[g]) = Len(rendered[g]) + 1
               /\ SubSeq(rendered'[g], 1, Len(rendered[g])) = rendered[g]
               /\ rendered'[g][Len(rendered'[g])].req = Head(message_queue).req
               /\ rendered'[g][Len(rendered'[g])].tag = Head(message_queue).tag]_vars

\* C15: at most one display surface is active at any instant; a step that
\* closes the window changes nothing of the workers; and when handle_message
\* accepts a request while no surface is active it starts a gui thread.
C15_SingleSurface ==
    [][/\ Cardinality({g \in Updates : Active(g)'}) <= 1
       /\ (\E g \in Updates : exists[g] /\ ~exists'[g])
             => /\ pc' = pc
                /\ fpc' = fpc
                /\ message_queue' = message_queue
       /\ (hpc = "gui" /\ hpc' = "idle" /\ \A g \in Updates : ~Active(g))
             => gpc'[handled] = "start"]_vars

\* C16: every ErrorChunk in a text widget, from stream_events or from
\* stream_follow_up, was given the error treatment, and every SeparatorChunk
\* the separator treatment.
C16_RenderingByTag ==
    \A g \in Updates :
        \A i \in 1..Len(rendered[g]) :
            /\ rendered[g][i].tag \in {"Error", "FollowError"}
                  => rendered[g][i].style = "error"
            /\ rendered[g][i].tag \in {"AnswersSeparator", "FollowSeparator"}
                  => rendered[g][i].style = "separator"

====
